---- MODULE Spec2Model ----
(***************************************************************************)
(* GOST R 34.10 signatures and GOST R 34.11-2012 hashing of Gost.cpp:      *)
(* the curve registry, Sign / Verify / RecoverPublicKey, the 512-bit block *)
(* algebra, the one-shot hash H and the streaming context.                 *)
(***************************************************************************)
EXTENDS Integers, Sequences, FiniteSets, TLC

(***************************************************************************)
(* GOST 34.11-2012: tables                                                 *)
(***************************************************************************)

\* static const uint8_t sbox_[256]
sbox_ ==
  <<
    252, 238, 221, 17, 207, 110, 49, 22, 251, 196, 250, 218, 35, 197, 4, 77,
    233, 119, 240, 219, 147, 46, 153, 186, 23, 54, 241, 187, 20, 205, 95, 193,
    249, 24, 101, 90, 226, 92, 239, 33, 129, 28, 60, 66, 139, 1, 142, 79,
    5, 132, 2, 174, 227, 106, 143, 160, 6, 11, 237, 152, 127, 212, 211, 31,
    235, 52, 44, 81, 234, 200, 72, 171, 242, 42, 104, 162, 253, 58, 206, 204,
    181, 112, 14, 86, 8, 12, 118, 18, 191, 114, 19, 71, 156, 183, 93, 135,
    21, 161, 150, 41, 16, 123, 154, 199, 243, 145, 120, 111, 157, 158, 178, 177,
    50, 117, 25, 61, 255, 53, 138, 126, 109, 84, 198, 128, 195, 189, 13, 87,
    223, 245, 36, 169, 62, 168, 67, 201, 215, 121, 214, 246, 124, 34, 185, 3,
    224, 15, 236, 222, 122, 148, 176, 188, 220, 232, 40, 80, 78, 51, 10, 74,
    167, 151, 96, 115, 30, 0, 98, 68, 26, 184, 56, 130, 100, 159, 38, 65,
    173, 69, 70, 146, 39, 94, 85, 47, 140, 163, 165, 125, 105, 213, 149, 59,
    7, 88, 179, 64, 134, 172, 29, 247, 48, 55, 107, 228, 136, 217, 231, 137,
    225, 27, 131, 73, 76, 63, 248, 254, 141, 83, 170, 144, 202, 216, 133, 97,
    32, 113, 103, 164, 45, 43, 9, 91, 203, 155, 37, 208, 190, 229, 108, 82,
    89, 166, 116, 210, 230, 244, 180, 192, 209, 102, 175, 194, 57, 75, 99, 182 >>

\* static const uint64_t A_[64], each 64-bit constant as its 8 bytes, most
\* significant first
A_ ==
  <<
    <<142, 32, 250, 167, 43, 160, 180, 112>>,
    <<71, 16, 125, 221, 155, 80, 90, 56>>,
    <<173, 8, 176, 224, 195, 40, 45, 28>>,
    <<216, 4, 88, 112, 239, 20, 152, 14>>,
    <<108, 2, 44, 56, 249, 10, 76, 7>>,
    <<54, 1, 22, 28, 242, 5, 38, 141>>,
    <<27, 142, 11, 14, 121, 140, 19, 200>>,
    <<131, 71, 139, 7, 178, 70, 135, 100>>,
    <<160, 17, 211, 128, 129, 142, 143, 64>>,
    <<80, 134, 231, 64, 206, 71, 201, 32>>,
    <<40, 67, 253, 32, 103, 173, 234, 16>>,
    <<20, 175, 240, 16, 189, 216, 117, 8>>,
    <<10, 217, 120, 8, 208, 108, 180, 4>>,
    <<5, 226, 60, 4, 104, 54, 90, 2>>,
    <<140, 113, 30, 2, 52, 27, 45, 1>>,
    <<70, 182, 15, 1, 26, 131, 152, 142>>,
    <<144, 218, 181, 42, 56, 122, 231, 111>>,
    <<72, 109, 212, 21, 28, 61, 253, 185>>,
    <<36, 184, 106, 132, 14, 144, 240, 210>>,
    <<18, 92, 53, 66, 7, 72, 120, 105>>,
    <<9, 46, 148, 33, 141, 36, 60, 186>>,
    <<138, 23, 74, 158, 200, 18, 30, 93>>,
    <<69, 133, 37, 79, 100, 9, 15, 160>>,
    <<172, 204, 156, 169, 50, 138, 137, 80>>,
    <<157, 77, 240, 93, 95, 102, 20, 81>>,
    <<192, 168, 120, 160, 161, 51, 10, 166>>,
    <<96, 84, 60, 80, 222, 151, 5, 83>>,
    <<48, 42, 30, 40, 111, 197, 140, 167>>,
    <<24, 21, 15, 20, 185, 236, 70, 221>>,
    <<12, 132, 137, 10, 210, 118, 35, 224>>,
    <<6, 66, 202, 5, 105, 59, 159, 112>>,
    <<3, 33, 101, 140, 186, 147, 193, 56>>,
    <<134, 39, 93, 240, 156, 232, 170, 168>>,
    <<67, 157, 160, 120, 78, 116, 85, 84>>,
    <<175, 192, 80, 60, 39, 58, 164, 42>>,
    <<217, 96, 40, 30, 157, 29, 82, 21>>,
    <<226, 48, 20, 15, 192, 128, 41, 132>>,
    <<113, 24, 10, 137, 96, 64, 154, 66>>,
    <<182, 12, 5, 202, 48, 32, 77, 33>>,
    <<91, 6, 140, 101, 24, 16, 168, 158>>,
    <<69, 108, 52, 136, 122, 56, 5, 185>>,
    <<172, 54, 26, 68, 61, 28, 140, 210>>,
    <<86, 27, 13, 34, 144, 14, 70, 105>>,
    <<43, 131, 136, 17, 72, 7, 35, 186>>,
    <<155, 207, 68, 134, 36, 141, 159, 93>>,
    <<195, 233, 34, 67, 18, 200, 193, 160>>,
    <<239, 250, 17, 175, 9, 100, 238, 80>>,
    <<249, 125, 134, 217, 138, 50, 119, 40>>,
    <<228, 250, 32, 84, 168, 11, 50, 156>>,
    <<114, 125, 16, 42, 84, 139, 25, 78>>,
    <<57, 176, 8, 21, 42, 203, 130, 39>>,
    <<146, 88, 4, 132, 21, 235, 65, 157>>,
    <<73, 44, 2, 66, 132, 251, 174, 192>>,
    <<170, 22, 1, 33, 66, 243, 87, 96>>,
    <<85, 11, 142, 158, 33, 247, 165, 48>>,
    <<164, 139, 71, 79, 158, 245, 220, 24>>,
    <<112, 166, 165, 110, 36, 64, 89, 142>>,
    <<56, 83, 220, 55, 18, 32, 162, 71>>,
    <<28, 167, 110, 149, 9, 16, 81, 173>>,
    <<14, 221, 55, 196, 138, 8, 166, 216>>,
    <<7, 224, 149, 98, 69, 4, 83, 108>>,
    <<141, 112, 196, 49, 172, 2, 167, 54>>,
    <<200, 56, 98, 150, 86, 1, 221, 27>>,
    <<100, 28, 49, 75, 43, 142, 224, 131>> >>

\* static const uint8_t C_[12][64]
C_ ==
  <<
  <<
      177, 8, 91, 218, 30, 202, 218, 233, 235, 203, 47, 129, 192, 101, 124, 31,
      47, 106, 118, 67, 46, 69, 208, 22, 113, 78, 184, 141, 117, 133, 196, 252,
      75, 124, 224, 145, 146, 103, 105, 1, 162, 66, 42, 8, 164, 96, 211, 21,
      5, 118, 116, 54, 204, 116, 77, 35, 221, 128, 101, 89, 242, 166, 69, 7 >>,
  <<
      111, 163, 181, 138, 169, 157, 47, 26, 79, 227, 157, 70, 15, 112, 181, 215,
      243, 254, 234, 114, 10, 35, 43, 152, 97, 213, 94, 15, 22, 181, 1, 49,
      154, 181, 23, 107, 18, 214, 153, 88, 92, 181, 97, 194, 219, 10, 167, 202,
      85, 221, 162, 27, 215, 203, 205, 86, 230, 121, 4, 112, 33, 177, 155, 183 >>,
  <<
      245, 116, 220, 172, 43, 206, 47, 199, 10, 57, 252, 40, 106, 61, 132, 53,
      6, 241, 94, 95, 82, 156, 31, 139, 242, 234, 117, 20, 177, 41, 123, 123,
      211, 226, 15, 228, 144, 53, 158, 177, 193, 201, 58, 55, 96, 98, 219, 9,
      194, 182, 244, 67, 134, 122, 219, 49, 153, 30, 150, 245, 10, 186, 10, 178 >>,
  <<
      239, 31, 223, 179, 232, 21, 102, 210, 249, 72, 225, 160, 93, 113, 228, 221,
      72, 142, 133, 126, 51, 92, 60, 125, 157, 114, 28, 173, 104, 94, 53, 63,
      169, 215, 44, 130, 237, 3, 214, 117, 216, 183, 19, 51, 147, 82, 3, 190,
      52, 83, 234, 161, 147, 232, 55, 241, 34, 12, 190, 188, 132, 227, 209, 46 >>,
  <<
      75, 234, 107, 172, 173, 71, 71, 153, 154, 63, 65, 12, 108, 169, 35, 99,
      127, 21, 28, 31, 22, 134, 16, 74, 53, 158, 53, 215, 128, 15, 255, 189,
      191, 205, 23, 71, 37, 58, 245, 163, 223, 255, 0, 183, 35, 39, 26, 22,
      122, 86, 162, 126, 169, 234, 99, 245, 96, 23, 88, 253, 124, 108, 254, 87 >>,
  <<
      174, 79, 174, 174, 29, 58, 211, 217, 111, 164, 195, 59, 122, 48, 57, 192,
      45, 102, 196, 249, 81, 66, 164, 108, 24, 127, 154, 180, 154, 240, 142, 198,
      207, 250, 166, 183, 28, 154, 183, 180, 10, 242, 31, 102, 194, 190, 198, 182,
      191, 113, 197, 114, 54, 144, 79, 53, 250, 104, 64, 122, 70, 100, 125, 110 >>,
  <<
      244, 199, 14, 22, 238, 170, 197, 236, 81, 172, 134, 254, 191, 36, 9, 84,
      57, 158, 198, 199, 230, 191, 135, 201, 211, 71, 62, 51, 25, 122, 147, 201,
      9, 146, 171, 197, 45, 130, 44, 55, 6, 71, 105, 131, 40, 74, 5, 4,
      53, 23, 69, 76, 162, 60, 74, 243, 136, 134, 86, 77, 58, 20, 212, 147 >>,
  <<
      155, 31, 91, 66, 77, 147, 201, 167, 3, 231, 170, 2, 12, 110, 65, 65,
      78, 183, 248, 113, 156, 54, 222, 30, 137, 180, 68, 59, 77, 219, 196, 154,
      244, 137, 43, 203, 146, 155, 6, 144, 105, 209, 141, 43, 209, 165, 196, 47,
      54, 172, 194, 53, 89, 81, 168, 217, 164, 127, 13, 212, 191, 2, 231, 30 >>,
  <<
      55, 143, 90, 84, 22, 49, 34, 155, 148, 76, 154, 216, 236, 22, 95, 222,
      58, 125, 58, 27, 37, 137, 66, 36, 60, 217, 85, 183, 224, 13, 9, 132,
      128, 10, 68, 11, 219, 178, 206, 177, 123, 43, 138, 154, 166, 7, 156, 84,
      14, 56, 220, 146, 203, 31, 42, 96, 114, 97, 68, 81, 131, 35, 90, 219 >>,
  <<
      171, 190, 222, 166, 128, 5, 111, 82, 56, 42, 229, 72, 178, 228, 243, 243,
      137, 65, 231, 28, 255, 138, 120, 219, 31, 255, 225, 138, 27, 51, 97, 3,
      159, 231, 103, 2, 175, 105, 51, 75, 122, 30, 108, 48, 59, 118, 82, 244,
      54, 152, 250, 209, 21, 59, 182, 195, 116, 180, 199, 251, 152, 69, 156, 237 >>,
  <<
      123, 205, 158, 208, 239, 200, 137, 251, 48, 2, 198, 205, 99, 90, 254, 148,
      216, 250, 107, 187, 235, 171, 7, 97, 32, 1, 128, 33, 20, 132, 102, 121,
      138, 29, 113, 239, 234, 72, 185, 202, 239, 186, 205, 29, 125, 71, 110, 152,
      222, 162, 89, 74, 192, 111, 216, 93, 107, 202, 164, 205, 129, 243, 45, 27 >>,
  <<
      55, 142, 231, 103, 241, 22, 49, 186, 210, 19, 128, 176, 4, 73, 177, 122,
      205, 164, 60, 50, 188, 223, 29, 119, 248, 32, 18, 212, 48, 33, 159, 155,
      93, 128, 239, 157, 24, 145, 204, 134, 231, 29, 164, 170, 136, 225, 40, 82,
      250, 244, 23, 213, 217, 178, 27, 153, 72, 188, 146, 74, 241, 27, 215, 32 >> >>

(***************************************************************************)
(* Block algebra.  A GOST3411Block is its 64 bytes buf[0..63], held as a   *)
(* sequence of length 64 (buf[i] is element i+1).                          *)
(***************************************************************************)

BlockLen == 64

RECURSIVE XorBits(_, _, _)
\* a ^ b on n-bit operands
XorBits(a, b, n) ==
  IF n = 0 THEN 0
  ELSE ((a + b) % 2) + 2 * XorBits(a \div 2, b \div 2, n - 1)

\* a ^ b for two uint8_t, tabulated
XorTab == [a \in 0..255 |-> [b \in 0..255 |-> XorBits(a, b, 8)]]

\* the value of a uint64_t accumulator as 8 bytes, x ^ y
Xor64(x, y) == [t \in 1..8 |-> XorTab[x[t]][y[t]]] \o << >>

Zero64 == [t \in 1..8 |-> 0]

\* a block of 64 equal bytes (memset)
Fill(v) == [n \in 1..BlockLen |-> v] \o << >>

\* GOST3411Block operator^ (both overloads act byte by byte)
BlockXor(x, y) == [n \in 1..BlockLen |-> XorTab[x[n]][y[n]]] \o << >>

RECURSIVE SumBytes(_, _, _, _, _)
\* the loop of operator+ run from index i (0-based) down to index lo with
\* the carry so far: the bytes ret.buf[lo..i] and the carry out of index lo
SumBytes(x, y, i, lo, carry) ==
  IF i < lo THEN [bytes |-> << >>, carry |-> carry]
  ELSE CHOOSE out \in
         { [bytes |-> Append(rest.bytes, sum % 256), carry |-> rest.carry] :
             rest \in {SumBytes(x, y, i - 1, lo, (x[i + 1] + y[i + 1] + carry) \div 256)},
             sum \in {x[i + 1] + y[i + 1] + carry} } : TRUE

RECURSIVE SumWords(_, _, _, _)
\* that loop from index 8*w+7 down to index 0, eight indices at a time
SumWords(x, y, w, carry) ==
  IF w < 0 THEN << >>
  ELSE CHOOSE out \in
         { SumWords(x, y, w - 1, part.carry) \o part.bytes :
             part \in {SumBytes(x, y, 8 * w + 7, 8 * w, carry)} } : TRUE

\* GOST3411Block operator+
BlockSum(x, y) == SumWords(x, y, 7, 0)

\* uint32_t arithmetic: a value c is held as <<hi, lo>>, its two 16-bit halves
U32(n) == << n \div 65536, n % 65536 >>

\* c += b for a byte b, wrapping at 2^32
U32AddByte(c, b) ==
  LET lo == c[2] + b
      hi == c[1] + (lo \div 65536)
  IN  << hi % 65536, lo % 65536 >>

\* c >>= 8
U32Shr8(c) == << c[1] \div 256, (c[1] % 256) * 256 + (c[2] \div 256) >>

RECURSIVE AddBytes(_, _, _, _)
\* the loop of Add run from index i (0-based) down to index lo: the bytes
\* buf[lo..i] it writes and the value of c after index lo
AddBytes(buf, i, lo, c) ==
  IF i < lo THEN [bytes |-> << >>, c |-> c]
  ELSE CHOOSE out \in
         { [bytes |-> Append(rest.bytes, c1[2] % 256), c |-> rest.c] :
             rest \in {AddBytes(buf, i - 1, lo, U32Shr8(U32AddByte(c, buf[i + 1])))},
             c1 \in {U32AddByte(c, buf[i + 1])} } : TRUE

RECURSIVE AddWords(_, _, _)
\* that loop from index 8*w+7 down to index 0, eight indices at a time
AddWords(buf, w, c) ==
  IF w < 0 THEN << >>
  ELSE CHOOSE out \in
         { AddWords(buf, w - 1, part.c) \o part.bytes :
             part \in {AddBytes(buf, 8 * w + 7, 8 * w, c)} } : TRUE

\* GOST3411Block::Add (uint32_t c)
Add(buf, c) == AddWords(buf, 7, c)

RECURSIVE LRow(_, _, _)
\* the inner loop over k of SPL for one substituted byte: the XOR of
\* A_[j*8+k] over the bits (0x80 >> k) set in byte, from bit k on
LRow(j, byte, k) ==
  IF k = 8 THEN Zero64
  ELSE LET rest == LRow(j, byte, k + 1)
       IN  IF (byte \div (2 ^ (7 - k))) % 2 = 1
           THEN Xor64(A_[j * 8 + k + 1], rest)
           ELSE rest

\* that XOR for every row j and every byte value, tabulated
LTab == [j \in 0..7 |-> [byte \in 0..255 |-> LRow(j, byte, 0)]]

RECURSIVE SPLWord(_, _, _)
\* the accumulator c of SPL for output word i, rows j..7
SPLWord(p, i, j) ==
  IF j = 8 THEN Zero64
  ELSE Xor64(LTab[j][sbox_[p[j * 8 + i + 1] + 1]], SPLWord(p, i, j + 1))

\* GOST3411Block::SPL: ll[i] = htobe64 (c) stores c most significant byte first
SPL(p) ==
  LET c == [i \in 1..8 |-> SPLWord(p, i - 1, 0)] \o << >>
  IN  [n \in 1..BlockLen |-> c[((n - 1) \div 8) + 1][((n - 1) % 8) + 1]] \o << >>

RECURSIVE ERound(_, _, _)
\* the loop of E from round i on, with key k and state res
ERound(k, res, i) ==
  IF i = 12 THEN res
  ELSE CHOOSE out \in
         { ERound(k1, BlockXor(k1, res1), i + 1) :
             k1 \in {SPL(BlockXor(k, C_[i + 1]))}, res1 \in {SPL(res)} } : TRUE

\* GOST3411Block::E
E(k, m) == ERound(k, BlockXor(k, m), 0)

\* gN
gN(N, h, m) ==
  CHOOSE out \in
    { BlockXor(BlockXor(E(res, m), h), m) : res \in {SPL(BlockXor(N, h))} } : TRUE

\* buf[from .. from+n-1] (0-based), as a sequence
Bytes(buf, from, n) == [t \in 1..n |-> buf[from + t]] \o << >>

Reverse(s) == [t \in 1..Len(s) |-> s[Len(s) + 1 - t]] \o << >>

RECURSIVE HStage2(_, _, _)
\* stage 2 of H: st = [h, N, s], l bytes of buf not yet folded
HStage2(st, buf, l) ==
  IF l >= BlockLen
  THEN CHOOSE out \in
         { HStage2(st1, buf, l - BlockLen) :
             st1 \in { [h |-> gN(st.N, st.h, m),
                        N |-> Add(st.N, U32(512)),
                        s |-> BlockSum(m, st.s)] :
                          m \in {Bytes(buf, l - BlockLen, BlockLen)} } } : TRUE
  ELSE [h |-> st.h, N |-> st.N, s |-> st.s, l |-> l]

\* the padded block of H (stage 3) and of Finish: padding-1 zero bytes, one
\* 0x01, then the first l bytes of tail
Pad(tail, l) ==
  LET padding == BlockLen - l
  IN  [n \in 1..BlockLen |->
         IF n < padding THEN 0 ELSE IF n = padding THEN 1 ELSE tail[n - padding]]
      \o << >>

\* stage 3 of H after the padding, and the two compressions that follow
HFinal(h, N, s, m, l) ==
  CHOOSE out \in
    { gN(Fill(0), h2, s1) :
        s1 \in {BlockSum(m, s)},
        h2 \in { gN(Fill(0), h1, N1) :
                   h1 \in {gN(N, h, m)}, N1 \in {Add(N, U32(l * 8))} } } : TRUE

\* H
H(iv, buf) ==
  CHOOSE out \in
    { HFinal(st.h, st.N, st.s, Pad(buf, st.l), st.l) :
        st \in {HStage2([h |-> iv, N |-> Fill(0), s |-> Fill(0)], buf, Len(buf))} }
    : TRUE

GOSTR3411_2012_256(buf) == Bytes(H(Fill(1), buf), 0, 32)

GOSTR3411_2012_512(buf) == H(Fill(0), buf)

(***************************************************************************)
(* Streaming context GOSTR3411_2012_CTX: a record [h, N, s, m, len, is512] *)
(***************************************************************************)

\* GOSTR3411_2012_CTX_new: new GOSTR3411_2012_CTX leaves every field
\* indeterminate; g is the byte the fresh memory happens to hold
CTX_new(g) ==
  [h |-> Fill(g), N |-> Fill(g), s |-> Fill(g), m |-> Fill(g),
   len |-> g, is512 |-> (g % 2 = 1)]

\* GOSTR3411_2012_CTX_Init
CTX_Init(ctx, is512) ==
  [ctx EXCEPT !.h = Fill(IF is512 THEN 0 ELSE 1),
              !.N = Fill(0),
              !.s = Fill(0),
              !.len = 0,
              !.is512 = is512]

\* the l bytes of buf written into m from index at in the order they come
Copy(m, at, buf, l) ==
  [n \in 1..BlockLen |->
     IF n > at /\ n <= at + l THEN buf[n - at] ELSE m[n]] \o << >>

\* for (i < l) m.buf[at + i] = buf[l-i-1]: the l bytes of buf written
\* inverted into m from index at (0-based); the other bytes of m are kept
Invert(m, at, buf, l) ==
  [n \in 1..BlockLen |->
     IF n > at /\ n <= at + l THEN buf[l - (n - at - 1)] ELSE m[n]] \o << >>

\* one compression of ctx->m: h = gN (N, h, m); N.Add (512); s = m + s
Compress(ctx) ==
  CHOOSE out \in
    { [ctx EXCEPT !.h = h1, !.N = N1, !.s = s1] :
        h1 \in {gN(ctx.N, ctx.h, ctx.m)},
        N1 \in {Add(ctx.N, U32(512))},
        s1 \in {BlockSum(ctx.m, ctx.s)} } : TRUE

\* the first part of Update, taken when ctx->len > 0: up to 64 - ctx->len
\* bytes are appended to the pending block, which is then compressed
\* whether or not it is full.  Returns the context and what is left of buf.
UpdateLeft(ctx, buf) ==
  LET l0 == BlockLen - ctx.len
      l == IF Len(buf) < l0 THEN Len(buf) ELSE l0
  IN  CHOOSE out \in
        { [ctx |-> Compress(c1), buf |-> Bytes(buf, l, Len(buf) - l)] :
            c1 \in {[ctx EXCEPT !.m = Invert(ctx.m, ctx.len, buf, l),
                                !.len = ctx.len + l]} } : TRUE

RECURSIVE UpdateFull(_, _)
\* while (len >= 64): whole blocks are inverted into m and compressed
UpdateFull(ctx, buf) ==
  IF Len(buf) >= BlockLen
  THEN CHOOSE out \in
         { UpdateFull(c1, Bytes(buf, BlockLen, Len(buf) - BlockLen)) :
             c1 \in {Compress([ctx EXCEPT !.m = Invert(ctx.m, 0, buf, BlockLen)])} }
         : TRUE
  ELSE [ctx |-> ctx, buf |-> buf]

\* if (len > 0) carry the remaining bytes, inverted; then ctx->len = len
UpdateCarry(ctx, buf) ==
  [ctx EXCEPT !.m = IF Len(buf) > 0 THEN Invert(ctx.m, 0, buf, Len(buf)) ELSE ctx.m,
              !.len = Len(buf)]

\* GOSTR3411_2012_CTX_Update
CTX_Update(buf, ctx) ==
  IF Len(buf) = 0 THEN ctx
  ELSE CHOOSE out \in
         { UpdateCarry(b.ctx, b.buf) :
             b \in { UpdateFull(a.ctx, a.buf) :
                       a \in {IF ctx.len > 0 THEN UpdateLeft(ctx, buf)
                                             ELSE [ctx |-> ctx, buf |-> buf]} } }
         : TRUE

\* the first sz bytes of h in the order they are stored
FinishDigestForward(h, is512) ==
  LET sz == IF is512 THEN 64 ELSE 32
  IN  [i \in 1..sz |-> h[i]] \o << >>

\* the digest loop of Finish: digest[i] = ctx->h.buf[sz - i - 1]
FinishDigest(h, is512) ==
  LET sz == IF is512 THEN 64 ELSE 32
  IN  [i \in 1..sz |-> h[sz - i + 1]] \o << >>

\* GOSTR3411_2012_CTX_Finish: the context it leaves and the digest it writes
CTX_Finish(ctx) ==
  LET m == Pad(ctx.m, ctx.len)
      sums == { [h |-> h1, N |-> N1, s |-> s1] :
                  h1 \in {gN(ctx.N, ctx.h, m)},
                  N1 \in {Add(ctx.N, U32(ctx.len * 8))},
                  s1 \in {BlockSum(m, ctx.s)} }
      withN == { [a EXCEPT !.h = gN(Fill(0), a.h, a.N)] : a \in sums }
      withS == { [a EXCEPT !.h = gN(Fill(0), a.h, a.s)] : a \in withN }
  IN  CHOOSE out \in
        { [ctx |-> [ctx EXCEPT !.h = a.h, !.N = a.N, !.s = a.s],
           digest |-> FinishDigest(a.h, ctx.is512)] : a \in withS } : TRUE

(***************************************************************************)
(* GOST R 34.10.  The group arithmetic is the library's (the EC_POINT and   *)
(* BN calls); it is computed here on a parameter set small enough to       *)
(* enumerate: a                                                            *)
(* curve y^2 = x^3 + a*x + b over GF(p) whose points form a group of prime *)
(* order q < p generated by (x, y), as the sets of CreateGOSTR3410Curve do. *)
(***************************************************************************)

\* a, b, p, q, x, y
Curve == [a |-> 2, b |-> 6, p |-> 17, q |-> 11, x |-> 1, y |-> 3]

\* the point at infinity
Inf == << >>

\* nullptr, where a point is expected
NullPoint == << 0 >>

\* the generator set by EC_GROUP_set_generator
Generator == << Curve.x, Curve.y >>

\* the inverse of a modulo n, when there is one
Inverse(a, n) == CHOOSE i \in 1..(n - 1) : ((a % n) * i) % n = 1

\* BN_mod_inverse (out, a, n, ctx): out is written only when a has an inverse
BN_mod_inverse(out, a, n) ==
  IF \E i \in 1..(n - 1) : ((a % n) * i) % n = 1 THEN Inverse(a, n) ELSE out

\* whether (x, y) satisfies the curve equation
OnCurve(x, y) ==
  (y * y) % Curve.p = (x * x * x + Curve.a * x + Curve.b) % Curve.p

\* EC_POINT_add
EC_POINT_add(A, B) ==
  IF A = Inf THEN B
  ELSE IF B = Inf THEN A
  ELSE IF A[1] = B[1] /\ (A[2] + B[2]) % Curve.p = 0 THEN Inf
  ELSE LET p == Curve.p
           l == IF A = B
                THEN ((3 * A[1] * A[1] + Curve.a) * Inverse(2 * A[2], p)) % p
                ELSE ((B[2] - A[2] + p) * Inverse(B[1] - A[1] + p, p)) % p
           x3 == (l * l + 2 * p - A[1] - B[1]) % p
       IN  << x3, (l * (A[1] + p - x3) + p - A[2]) % p >>

RECURSIVE Times(_, _)
\* n times the point A
Times(n, A) == IF n = 0 THEN Inf ELSE EC_POINT_add(A, Times(n - 1, A))

\* EC_POINT_mul (group, out, n, Q, m, ctx): n*P + m*Q
EC_POINT_mul(n, Q, m) == EC_POINT_add(Times(n, Generator), Times(m, Q))

\* GOSTR3410Curve::MulP
MulP(n) == EC_POINT_mul(n, Inf, 0)

\* GOSTR3410Curve::GetXY with y = nullptr: whether the call succeeded and the
\* value of x after it; x is left as it was when the point has no affine
\* coordinates
GetXY(A, x) == IF A = Inf THEN [ok |-> FALSE, x |-> x] ELSE [ok |-> TRUE, x |-> A[1]]

\* EC_POINT_set_compressed_coordinates_GFp (group, C, x, y_bit, ctx): the
\* point with that x whose y has parity y_bit, or failure
Decompress(x, ybit) ==
  LET ys == {y \in 0..(Curve.p - 1) : OnCurve(x % Curve.p, y) /\ y % 2 = ybit}
  IN  IF ys = {} THEN [ok |-> FALSE, C |-> Inf]
      ELSE [ok |-> TRUE, C |-> << x % Curve.p, CHOOSE y \in ys : TRUE >>]

\* GOSTR3410Curve::Sign with the value k that BN_rand_range drew; r and s
\* are the caller's BIGNUMs, r0 the value r held before the call
Sign(priv, digest, r0, k) ==
  LET q == Curve.q
      C == MulP(k)
      r == GetXY(C, r0).x
      s1 == (r * priv) % q
      tmp == (k * digest) % q
  IN  [r |-> r, s |-> (s1 + tmp) % q]

\* the comparison of Verify with BN_mod (x, x, q, ctx) left out
VerifyCompareUnreduced(x, r) == x = r

\* the comparison that ends Verify: x = Cx % q, ret = !BN_cmp (x, r)
VerifyCompare(x, r) == (x % Curve.q) = r

\* the point C that Verify computes: z1*P + z2*pub
VerifyPoint(pub, digest, r, s) ==
  LET q == Curve.q
      h0 == digest % q
      h == BN_mod_inverse(h0, h0, q)
      z1 == (s * h) % q
      z2 == ((q - r) * h) % q
  IN  EC_POINT_mul(z1, pub, z2)

\* GOSTR3410Curve::Verify; x is a fresh BIGNUM, which holds 0
Verify(pub, digest, r, s) ==
  VerifyCompare(GetXY(VerifyPoint(pub, digest, r, s), 0).x, r)

\* GOSTR3410Curve::RecoverPublicKey
RecoverPublicKey(digest, r, s, isNegativeY) ==
  LET q == Curve.q
      c == Decompress(r, IF isNegativeY THEN 1 ELSE 0)
      S == EC_POINT_mul(s, Inf, 0)
      h == q - (digest % q)
      hC == EC_POINT_mul(0, c.C, h)
      C1 == EC_POINT_add(S, hC)
      r1 == BN_mod_inverse(0, r, q)
  IN  IF c.ok THEN EC_POINT_mul(0, C1, r1) ELSE NullPoint

(***************************************************************************)
(* The curve registry.  A curve is named by a positive number, nullptr is 0 *)
(***************************************************************************)

\* eGOSTR3410NumParamSets
NumParamSets == 2

ParamSets == 0..(NumParamSets - 1)

(***************************************************************************)
(* State                                                                   *)
(***************************************************************************)

VARIABLES
  \* hashing one message: the message, the variant, the one-shot digests, the
  \* caller's position, the streaming context, the lengths passed to Update
  \* so far, and the digest Finish wrote
  msg, want512, oneshot, hpc, ctx, chunks, digest,
  \* one key pair signing and verifying: the private scalar, the public
  \* point, the digest signed, the nonce Sign drew, the caller's r and s, the
  \* caller's position, the digest and result of Verify, the parity and
  \* result of RecoverPublicKey
  priv, pub, e, k, r, s, spc, ve, ret, par, rec,
  \* Verify on values a caller supplies: its arguments and its result
  vin, vout,
  \* the curve registry: g_GOSTR3410Curves, the curves alive, the curves
  \* destroyed, the curves ever stored in each slot, the curves callers got,
  \* and per thread its position, its paramSet, its local c and the pointer
  \* reset found in the slot
  slots, live, dead, stored, got, tpc, tset, tc, told,
  \* Add on a block: the block before, the operand, the block after, and
  \* the number of calls so far
  blk0, addc, blk, nadd

hashVars == << msg, want512, oneshot, hpc, ctx, chunks, digest >>
sigVars == << priv, pub, e, k, r, s, spc, ve, ret, par, rec >>
verVars == << vin, vout >>
regVars == << slots, live, dead, stored, got, tpc, tset, tc, told >>
addVars == << blk0, addc, blk, nadd >>
vars == << hashVars, sigVars, verVars, regVars, addVars >>

None == << >>

\* the variables a specification does not use stay at these values
HashIdle ==
  /\ msg = None /\ want512 = FALSE /\ oneshot = None /\ hpc = "off"
  /\ ctx = None /\ chunks = None /\ digest = None
SigIdle ==
  /\ priv = 0 /\ pub = None /\ e = 0 /\ k = 0 /\ r = 0 /\ s = 0
  /\ spc = "off" /\ ve = 0 /\ ret = FALSE /\ par = FALSE /\ rec = None
VerIdle == vin = None /\ vout = None
RegIdle ==
  /\ slots = None /\ live = {} /\ dead = {} /\ stored = None /\ got = {}
  /\ tpc = None /\ tset = None /\ tc = None /\ told = None
AddIdle == blk0 = None /\ addc = None /\ blk = None /\ nadd = 0

(***************************************************************************)
(* Hashing one message both ways: the one-shot functions, then a streaming *)
(* context fed the same message in chunks.                                 *)
(***************************************************************************)

\* longest message hashed
MaxMsgLen == 130

\* most Update calls on one context
MaxCalls == 3

MsgLens == {0, 2, BlockLen, MaxMsgLen}

\* the message of length n that is hashed
Msg(n) == [t \in 1..n |-> (t * 7 + 1) % 256] \o << >>

\* bytes a fresh context's memory may hold
Garbage == {0, 165}

\* bytes of msg passed to Update so far
RECURSIVE Sum(_)
Sum(lens) == IF lens = << >> THEN 0 ELSE Head(lens) + Sum(Tail(lens))

Fed == Sum(chunks)

\* lengths the caller may pass next: one byte, one block, or all that is left
ChunkLens ==
  LET rem == Len(msg) - Fed
  IN  IF rem = 0 THEN (IF chunks = << >> THEN {0} ELSE {})
      ELSE {l \in {1, BlockLen, rem} : l <= rem}

notHash == << sigVars, verVars, regVars, addVars >>

HashInit ==
  /\ msg \in {Msg(n) : n \in MsgLens}
  /\ want512 \in BOOLEAN
  /\ oneshot = [direct |-> None, reversed |-> None]
  /\ hpc = "idle"
  /\ ctx = None
  /\ chunks = << >>
  /\ digest = None
  /\ SigIdle /\ VerIdle /\ RegIdle /\ AddIdle

\* the caller hashes msg (rev = FALSE) or msg reversed (rev = TRUE) with
\* the one-shot function of the variant it wants
OneShot(rev) ==
  /\ hpc = "idle"
  /\ LET which == IF rev THEN "reversed" ELSE "direct"
         buf == IF rev THEN Reverse(msg) ELSE msg
     IN  /\ oneshot[which] = None
         /\ oneshot' = [oneshot EXCEPT ![which] =
                          IF want512 THEN GOSTR3411_2012_512(buf)
                                     ELSE GOSTR3411_2012_256(buf)]
  /\ UNCHANGED << msg, want512, hpc, ctx, chunks, digest, notHash >>

New ==
  /\ hpc = "idle"
  /\ oneshot.direct # None /\ oneshot.reversed # None
  /\ \E g \in Garbage : ctx' = CTX_new(g)
  /\ hpc' = "new"
  /\ UNCHANGED << msg, want512, oneshot, chunks, digest, notHash >>

Init_ ==
  /\ hpc = "new"
  /\ ctx' = CTX_Init(ctx, want512)
  /\ hpc' = "init"
  /\ UNCHANGED << msg, want512, oneshot, chunks, digest, notHash >>

Update ==
  /\ hpc = "init"
  /\ Len(chunks) < MaxCalls
  /\ \E len \in ChunkLens :
       /\ ctx' = CTX_Update(Bytes(msg, Fed, len), ctx)
       /\ chunks' = Append(chunks, len)
  /\ UNCHANGED << msg, want512, oneshot, hpc, digest, notHash >>

Finish ==
  /\ hpc = "init"
  /\ Fed = Len(msg)
  /\ LET out == CTX_Finish(ctx)
     IN  /\ ctx' = out.ctx
         /\ digest' = out.digest
  /\ hpc' = "finished"
  /\ UNCHANGED << msg, want512, oneshot, chunks, notHash >>

Free ==
  /\ hpc = "finished"
  /\ ctx' = None
  /\ hpc' = "freed"
  /\ UNCHANGED << msg, want512, oneshot, chunks, digest, notHash >>

HashNext ==
  \/ \E rev \in BOOLEAN : OneShot(rev)
  \/ New
  \/ Init_
  \/ Update
  \/ Finish
  \/ Free

HashSpec == HashInit /\ [][HashNext]_vars


(***************************************************************************)
(* One key pair: Sign, then Verify or RecoverPublicKey on what Sign wrote  *)
(***************************************************************************)

\* largest digest value signed or verified
MaxDigest == 12

Digests == 0..MaxDigest

notSig == << hashVars, verVars, regVars, addVars >>

\* the caller holds a key pair (d, d*P) and two fresh BIGNUMs r and s
SigInit ==
  /\ priv \in 1..(Curve.q - 1)
  /\ pub = MulP(priv)
  /\ e = 0 /\ k = 0
  /\ r = 0 /\ s = 0
  /\ spc = "keyed"
  /\ ve = 0 /\ ret = FALSE /\ par = FALSE /\ rec = None
  /\ HashIdle /\ VerIdle /\ RegIdle /\ AddIdle

\* Sign (priv, digest, r, s); BN_rand_range (k, q) draws 0 <= k < q
DoSign ==
  /\ spc \in {"keyed", "signed"}
  /\ \E dg \in Digests, nonce \in 0..(Curve.q - 1) :
       LET sig == Sign(priv, dg, r, nonce)
       IN  /\ r' = sig.r
           /\ s' = sig.s
           /\ e' = dg
           /\ k' = nonce
  /\ spc' = "signed"
  /\ ve' = 0 /\ ret' = FALSE /\ par' = FALSE /\ rec' = None
  /\ UNCHANGED << priv, pub, notSig >>

\* Verify (pub, digest, r, s) on the signature, for any digest
DoVerify ==
  /\ spc = "signed"
  /\ \E dg \in Digests :
       /\ ve' = dg
       /\ ret' = Verify(pub, dg, r, s)
  /\ spc' = "verified"
  /\ UNCHANGED << priv, pub, e, k, r, s, par, rec, notSig >>

\* RecoverPublicKey (digest, r, s, isNegativeY) on the signature and its digest
DoRecover ==
  /\ spc = "signed"
  /\ \E isNegativeY \in BOOLEAN :
       /\ par' = isNegativeY
       /\ rec' = RecoverPublicKey(e, r, s, isNegativeY)
  /\ spc' = "recovered"
  /\ UNCHANGED << priv, pub, e, k, r, s, ve, ret, notSig >>

SigNext == DoSign \/ DoVerify \/ DoRecover

SigSpec == SigInit /\ [][SigNext]_vars

(***************************************************************************)
(* Verify on values a caller supplies                                      *)
(***************************************************************************)

\* largest r and s a caller supplies
MaxSigVal == 12

\* the affine points of the group
Points == {Times(n, Generator) : n \in 1..(Curve.q - 1)}

notVer == << hashVars, sigVars, regVars, addVars >>

VerInit ==
  /\ vin \in [pub : Points, digest : Digests, r : 0..MaxSigVal, s : 0..MaxSigVal]
  /\ vout = None
  /\ HashIdle /\ SigIdle /\ RegIdle /\ AddIdle

CallVerify ==
  /\ vout = None
  /\ vout' = << Verify(vin.pub, vin.digest, vin.r, vin.s) >>
  /\ UNCHANGED << vin, notVer >>

VerNext == CallVerify

VerSpec == VerInit /\ [][VerNext]_vars

(***************************************************************************)
(* Threads calling GetGOSTR3410Curve                                       *)
(***************************************************************************)

\* number of threads
NThreads == 2

Threads == 1..NThreads

notReg == << hashVars, sigVars, verVars, addVars >>

RegInit ==
  /\ slots = [ps \in ParamSets |-> 0]
  /\ live = {} /\ dead = {}
  /\ stored = [ps \in ParamSets |-> {}]
  /\ got = {}
  /\ tpc = [t \in Threads |-> "idle"]
  /\ tset = [t \in Threads |-> 0]
  /\ tc = [t \in Threads |-> 0]
  /\ told = [t \in Threads |-> 0]
  /\ HashIdle /\ SigIdle /\ VerIdle /\ AddIdle

\* a thread calls GetGOSTR3410Curve (paramSet)
Call(t) ==
  /\ tpc[t] = "idle"
  /\ \E ps \in ParamSets : tset' = [tset EXCEPT ![t] = ps]
  /\ tpc' = [tpc EXCEPT ![t] = "check"]
  /\ UNCHANGED << slots, live, dead, stored, got, tc, told, notReg >>

\* if (!g_GOSTR3410Curves[paramSet])
Check(t) ==
  /\ tpc[t] = "check"
  /\ tpc' = [tpc EXCEPT ![t] = IF slots[tset[t]] = 0 THEN "create" ELSE "return"]
  /\ UNCHANGED << slots, live, dead, stored, got, tset, tc, told, notReg >>

\* auto c = CreateGOSTR3410Curve (paramSet)
Create(t) ==
  /\ tpc[t] = "create"
  /\ LET c == Cardinality(live \cup dead) + 1
     IN  /\ tc' = [tc EXCEPT ![t] = c]
         /\ live' = live \cup {c}
  /\ tpc' = [tpc EXCEPT ![t] = "recheck"]
  /\ UNCHANGED << slots, dead, stored, got, tset, told, notReg >>

\* if (!g_GOSTR3410Curves[paramSet]) // make sure it was not created already
Recheck(t) ==
  /\ tpc[t] = "recheck"
  /\ tpc' = [tpc EXCEPT ![t] = IF slots[tset[t]] = 0 THEN "reset" ELSE "delete"]
  /\ UNCHANGED << slots, live, dead, stored, got, tset, tc, told, notReg >>

\* g_GOSTR3410Curves[paramSet].reset (c): read the old pointer
ResetRead(t) ==
  /\ tpc[t] = "reset"
  /\ told' = [told EXCEPT ![t] = slots[tset[t]]]
  /\ tpc' = [tpc EXCEPT ![t] = "store"]
  /\ UNCHANGED << slots, live, dead, stored, got, tset, tc, notReg >>

\* reset (c): store c
ResetStore(t) ==
  /\ tpc[t] = "store"
  /\ slots' = [slots EXCEPT ![tset[t]] = tc[t]]
  /\ stored' = [stored EXCEPT ![tset[t]] = @ \cup {tc[t]}]
  /\ tpc' = [tpc EXCEPT ![t] = "dispose"]
  /\ UNCHANGED << live, dead, got, tset, tc, told, notReg >>

\* reset (c): delete the old pointer if there was one
ResetDispose(t) ==
  /\ tpc[t] = "dispose"
  /\ live' = IF told[t] = 0 THEN live ELSE live \ {told[t]}
  /\ dead' = IF told[t] = 0 THEN dead ELSE dead \cup {told[t]}
  /\ tpc' = [tpc EXCEPT ![t] = "return"]
  /\ UNCHANGED << slots, stored, got, tset, tc, told, notReg >>

\* else delete c
Delete(t) ==
  /\ tpc[t] = "delete"
  /\ live' = live \ {tc[t]}
  /\ dead' = dead \cup {tc[t]}
  /\ tpc' = [tpc EXCEPT ![t] = "return"]
  /\ UNCHANGED << slots, stored, got, tset, tc, told, notReg >>

\* return g_GOSTR3410Curves[paramSet]; the caller takes the curve from it
Return(t) ==
  /\ tpc[t] = "return"
  /\ got' = got \cup {slots[tset[t]]}
  /\ tpc' = [tpc EXCEPT ![t] = "idle"]
  /\ tc' = [tc EXCEPT ![t] = 0]
  /\ told' = [told EXCEPT ![t] = 0]
  /\ UNCHANGED << slots, live, dead, stored, tset, notReg >>

RegNext ==
  \E t \in Threads :
    \/ Call(t)
    \/ Check(t)
    \/ Create(t)
    \/ Recheck(t)
    \/ ResetRead(t)
    \/ ResetStore(t)
    \/ ResetDispose(t)
    \/ Delete(t)
    \/ Return(t)

RegSpec == RegInit /\ [][RegNext]_vars

(***************************************************************************)
(* GOST3411Block::Add on a counter block                                   *)
(***************************************************************************)

\* most Add calls on one block
MaxAdds == 3

\* operands: the two kinds H and the context pass (512, and l*8 for a
\* pending length l), and the top of the uint32_t range
Operands ==
  { U32(0), U32(8), U32(504), U32(512),
    << 65535, 65280 >>, << 65535, 65535 >> }

notAdd == << hashVars, sigVars, verVars, regVars >>

\* memset (N.buf, 0, 64)
AddInit ==
  /\ blk0 = Fill(0)
  /\ addc = U32(0)
  /\ blk = Fill(0)
  /\ nadd = 0
  /\ HashIdle /\ SigIdle /\ VerIdle /\ RegIdle

CallAdd ==
  /\ nadd < MaxAdds
  /\ \E c \in Operands :
       /\ blk0' = blk
       /\ addc' = c
       /\ blk' = Add(blk, c)
  /\ nadd' = nadd + 1
  /\ UNCHANGED notAdd

AddNext == CallAdd

AddSpec == AddInit /\ [][AddNext]_vars

(***************************************************************************)
(* Properties                                                              *)
(***************************************************************************)

\* the byte-reversal of the one-shot digest of the reversed message
ReversedOneShot == Reverse(oneshot.reversed)

\* every Update call but the last passed a multiple of 64 bytes
Aligned == \A i \in 1..(Len(chunks) - 1) : chunks[i] % BlockLen = 0

\* the digest of Init; Update (msg) in one call; Finish
SingleCall ==
  CTX_Finish(CTX_Update(msg, CTX_Init(CTX_new(0), want512))).digest

\* C1, as the specification states it: the digest written by Init; Update (M)
\* in one call; Finish is byte for byte the digest the one-shot function
\* writes for the same M.
C1_StreamEqualsOneShot ==
  hpc = "finished" /\ Len(chunks) = 1 => digest = oneshot.direct

\* C1, as the code has it: the digest written by Init; Update (M) in one
\* call; Finish is the byte-reversal of the digest the one-shot function
\* writes for M reversed, for both variants and whatever the fresh context
\* held.
C1_StreamIsReversedOneShot ==
  hpc = "finished" /\ Len(chunks) = 1 => digest = ReversedOneShot

\* a message longer than one block was hashed in a single Update call and
\* the digest is the reversed one, not the one-shot digest of the message
C1_Witness ==
  /\ hpc = "finished"
  /\ Len(chunks) = 1
  /\ Len(msg) > BlockLen
  /\ digest = ReversedOneShot
  /\ digest # oneshot.direct

\* C2: the streaming digest does not depend on how the message is split
\* into non-empty Update calls: whatever the chunks, Finish writes the digest
\* of Init; Update (M); Finish.
C2_ChunkingIndependent ==
  hpc = "finished" => digest = SingleCall

\* C3: the pair (r, s) written by Sign (d, e), for every nonce Sign can draw,
\* makes Verify (Q, e, r, s) return true.
C3_SignVerifyRoundTrip ==
  spc = "verified" /\ ve = e => ret

\* C4: Verify returns false when the digest is 0 mod q or when the point
\* C = z1*P + z2*Q is the identity, and returns true only when C is an affine
\* point with Cx mod q = r.
C4_DegenerateRejected ==
  vout # None =>
    LET C == VerifyPoint(vin.pub, vin.digest, vin.r, vin.s)
    IN  /\ (vin.digest % Curve.q = 0 \/ C = Inf) => vout = << FALSE >>
        /\ vout = << TRUE >> => (C # Inf /\ C[1] % Curve.q = vin.r)

SameUpToSign(d1, d2) ==
  \/ d1 % Curve.q = d2 % Curve.q
  \/ (d1 + d2) % Curve.q = 0

C6_PublishedOnce ==
  /\ \A ps \in ParamSets : Cardinality(stored[ps]) <= 1
  /\ \A ps \in ParamSets : stored[ps] \cap dead = {}
  /\ got \cap dead = {}

\* C7: RecoverPublicKey on a signature of Sign (d, e) with the nonce point
\* C = k*P returns Q when the parity is that of C's y-coordinate, returns
\* null or a point other than Q for the other parity, and returns null when
\* r is not the x-coordinate of a point of the curve.
C7_RecoverRoundTrip ==
  spc = "recovered" /\ k # 0 =>
    LET C == MulP(k)
    IN  /\ par = (C[2] % 2 = 1) => rec = pub
        /\ par # (C[2] % 2 = 1) => rec # pub
        /\ (\A y \in 0..(Curve.p - 1) : ~OnCurve(r % Curve.p, y)) => rec = NullPoint

\* C8: both components of a signature written by Sign are reduced modulo
\* the group order: 0 <= r < q and 0 <= s < q.
C8_SignatureReduced ==
  spc = "signed" => (r \in 0..(Curve.q - 1) /\ s \in 0..(Curve.q - 1))

\* the block whose last four bytes are the operand c, most significant first
Operand(c) ==
  [n \in 1..(BlockLen - 4) |-> 0]
    \o << c[1] \div 256, c[1] % 256, c[2] \div 256, c[2] % 256 >>

\* C9: after Add (c) the block is the block before plus c modulo 2^512, for
\* every operand of 32 bits.
C9_AddExact ==
  nadd > 0 => blk = BlockSum(blk0, Operand(addc))

\* C10: when every Update call but the last passes a multiple of 64 bytes,
\* the digest Finish writes is the byte-reversal of the one-shot digest of
\* the reversed message, for both variants, and ctx->len stays within 0..63
\* from Init on.
C10_AlignedStreamIsReversedOneShot ==
  /\ (hpc = "finished" /\ Aligned) => digest = ReversedOneShot
  /\ (hpc \in {"init", "finished"} /\ Aligned) => ctx.len \in 0..(BlockLen - 1)

\* a message was fed in several aligned Update calls, the last of which left
\* bytes pending, and Finish wrote the reversed digest
C10_Witness ==
  /\ hpc = "finished"
  /\ Len(chunks) > 1
  /\ Aligned
  /\ ctx.len > 0
  /\ digest = ReversedOneShot

====
